---- MODULE Spec2Model ----
(***************************************************************************)
(* A model of survive.py: the Game object, its entity lists (enemies,      *)
(* bullets, death-particle emitters), the physics world's membership, and  *)
(* the collision callbacks the entities register.                          *)
(*                                                                         *)
(* The physics and rendering engines are external.  What they decide is    *)
(* drawn from small sets at each step: where the bodies are after          *)
(* space.step, which contacts begin, the contact normal, the keys and the  *)
(* mouse, and the random draws.  Lengths are integers; a contact normal's  *)
(* y-component is in hundredths (0.25 is 25).                              *)
(*                                                                         *)
(* Python lists hold references: an entity is an identifier, and           *)
(* list.remove(x) removes the first element that is x and raises           *)
(* ValueError when there is none.  An uncaught exception leaves            *)
(* pyxel.run: `error` records it and nothing runs afterwards.              *)
(***************************************************************************)
EXTENDS Integers, Sequences, FiniteSets, TLC

(***************************************************************************)
(* Bounds.  Each is the program's constant of the same name, scaled down.  *)
(***************************************************************************)
\* INITIAL_ENEMIES = 5 in the source
INITIAL_ENEMIES == 2
\* Game.MAX_BULLETS = 10 in the source
MAX_BULLETS == 1
\* Bullet.life_time = 150 in the source
Bullet_life_time == 2
\* DeathParticles.MAX_GENERATED = 100 in the source
MAX_GENERATED == 2
\* DeathParticles.MAX_DURATION = 30 in the source
MAX_DURATION == 2

(***************************************************************************)
(* Program constants.                                                      *)
(***************************************************************************)
WIDTH == 256
Enemy_lives == 4
Player_SPEED == 90
Player_JUMP_SPEED == 120

(***************************************************************************)
(* What the engines and the random generator can answer.                   *)
(***************************************************************************)
EnemyIds == 1..INITIAL_ENEMIES
\* random.randint(4, 24)
Radii == {4}
\* e.position after space.step
EnemyPositions == {<<5, 0>>, <<40, 0>>}
\* self.player.position after space.step
PlayerPositions == {<<0, 0>>}
\* self.player.velocity after space.step
StepVelocities == {<<0, 0>>}
\* camera.mouse_x, camera.mouse_y on a left click
MousePositions == {<<129, 0>>}
\* the held horizontal key, and whether W was pressed in this frame
Keys == {[held |-> "none", jump |-> FALSE]}
\* arb.normal_from(player).y in begin, in hundredths
NormalYs == {24, 25}
\* arb.normal_from(self).y in _col_start, in hundredths
GroundNormalYs == {-50, -49}
\* which shape arb.shapes reports first
ShapeOrders == {"player_first", "enemy_first"}
\* random.expovariate(1 / 10), rounded
ExpoDraws == 0..MAX_DURATION

VARIABLES state, player, enemies, lives, radius, bullets, particles, space,
          error, hits, created, lastOp

vars == <<state, player, enemies, lives, radius, bullets, particles, space,
          error, hits, created, lastOp>>

(***************************************************************************)
(* Bodies of the physics world.                                            *)
(***************************************************************************)
PlayerBody == <<"player", 0, 0>>
EnemyBody(e) == <<"enemy", e, 0>>
ParticleBody(d, pid) == <<"particle", d, pid>>

(***************************************************************************)
(* Python lists.                                                           *)
(***************************************************************************)
RemoveAt(s, i) == SubSeq(s, 1, i - 1) \o SubSeq(s, i + 1, Len(s))

Contains(s, x) == \E i \in 1..Len(s) : s[i] = x

IndexOf(s, x) == CHOOSE i \in 1..Len(s) : s[i] = x /\ \A j \in 1..(i - 1) : s[j] # x

\* list.remove(x) on a list that holds x
ListRemove(s, x) == RemoveAt(s, IndexOf(s, x))

Ids(s) == {s[i].id : i \in 1..Len(s)}

IndexOfId(s, id) == CHOOSE i \in 1..Len(s) : s[i].id = id /\ \A j \in 1..(i - 1) : s[j].id # id

IndexOfId2(s, pid) == CHOOSE i \in 1..Len(s) : s[i].pid = pid

Range(s) == {s[i] : i \in 1..Len(s)}

\* what the last operation was, the messages it sent to Game.message and, for
\* Game.update, which bullets it updated (in order), which expired, which struck
\* an enemy, and the bodies space.remove was given when they were not in the world
NoLog == [op |-> "init", msgs |-> <<>>, updated |-> <<>>, expired |-> {}, struck |-> {},
          absent |-> {}]

Callback == [NoLog EXCEPT !.op = "callback"]

(***************************************************************************)
(* DeathParticles.  An emitter is [id, generated, particles]; a particle   *)
(* is [pid, duration] and its body is ParticleBody(id, pid).  The          *)
(* operators take and return [d |-> the emitter, space |-> the world].     *)
(* A particle's velocity belongs to the engine and is not modelled.        *)
(***************************************************************************)
DeathParticles(id) == [id |-> id, generated |-> 0, particles |-> <<>>]

\* keep_generating with the comparison off by one
keep_generating_late(d) == d.generated <= MAX_GENERATED

keep_generating(d) == d.generated < MAX_GENERATED

\* x is the draw of random.expovariate(1 / 10)
emmit(ds, x) ==
    IF ~keep_generating(ds.d) THEN ds
    ELSE LET n == ds.d.generated + 1
             p == [pid |-> n, duration |-> MAX_DURATION - x]
         IN [d |-> [ds.d EXCEPT !.generated = n, !.particles = Append(@, p)],
             space |-> ds.space \cup {ParticleBody(ds.d.id, n)}]

RECURSIVE generate_loop(_, _, _)
generate_loop(ds, xs, k) ==
    IF k > Len(xs) THEN ds
    ELSE generate_loop(emmit(ds, xs[k]), xs, k + 1)

\* xs holds one draw per iteration: batch_size = Len(xs)
generate_particles(ds, xs) ==
    IF ~keep_generating(ds.d) THEN ds
    ELSE generate_loop(ds, xs, 1)

\* the loop of DeathParticles.update over self.particles.copy()
RECURSIVE age_loop(_, _, _)
age_loop(ds, copy, k) ==
    IF k > Len(copy) THEN ds
    ELSE LET pid == copy[k].pid
             i == IndexOfId2(ds.d.particles, pid)
             t == ds.d.particles[i].duration - 1
         IN IF t <= 0
            THEN age_loop([d |-> [ds.d EXCEPT !.particles = RemoveAt(@, i)],
                           space |-> ds.space \ {ParticleBody(ds.d.id, pid)}],
                          copy, k + 1)
            ELSE age_loop([ds EXCEPT !.d.particles[i].duration = t], copy, k + 1)

\* DeathParticles_update without the space.remove of the ended particles
DeathParticles_update_leaky(ds) == [d |-> age_loop(ds, ds.d.particles, 1).d, space |-> ds.space]

\* DeathParticles.update up to the call of remove_me
DeathParticles_update(ds) == age_loop(ds, ds.d.particles, 1)

\* the default of batch_size, which the source sets to the value of MAX_GENERATED
DefaultBatch == MAX_GENERATED

DrawSeqs(n) == [1..n -> ExpoDraws]

(***************************************************************************)
(* Bullet.  A bullet is [id, life_time, position, velocity].               *)
(***************************************************************************)
Sign(n) == IF n > 0 THEN 1 ELSE IF n < 0 THEN -1 ELSE 0

\* (cos, sin) of atan2(dy, dx), for the targets on one of the axes through the
\* start point; atan2(0, 0) is 0
Direction(dx, dy) ==
    IF dy = 0 THEN <<IF dx < 0 THEN -1 ELSE 1, 0>> ELSE <<0, Sign(dy)>>

Bullet(id, x, y, target_x, target_y) ==
    [id |-> id, life_time |-> Bullet_life_time, position |-> <<x, y>>,
     velocity |-> Direction(target_x - x, target_y - y)]

\* Bullet.update up to the call of del_bullet
Bullet_move(b) ==
    [b EXCEPT !.position = <<b.position[1] + b.velocity[1], b.position[2] + b.velocity[2]>>,
              !.life_time = b.life_time - 1]

\* Bullet_expired with the comparison off by one
Bullet_expired_early(b) == b.life_time <= 0

Bullet_expired(b) == b.life_time < 0

(***************************************************************************)
(* Player.  player is [can_jump, velocity]; v is the velocity the engine   *)
(* left after space.step.  The force Player.update adds is consumed by the *)
(* engine and is not modelled.                                             *)
(***************************************************************************)
\* Player_update with the jump taken in the air too
Player_update_air_jump(can_jump, v, key) ==
    LET v1 == IF key.held = "A"
              THEN IF can_jump THEN <<-Player_SPEED, v[2]>> ELSE <<-(Player_SPEED \div 2), v[2]>>
              ELSE IF key.held = "D"
              THEN IF can_jump THEN <<Player_SPEED, v[2]>> ELSE <<Player_SPEED \div 2, v[2]>>
              ELSE IF can_jump THEN <<v[1] \div 2, v[2]>> ELSE <<v[1], v[2]>>
    IN IF key.jump THEN <<v1[1], Player_JUMP_SPEED>> ELSE v1

Player_update(can_jump, v, key) ==
    LET v1 == IF key.held = "A"
              THEN IF can_jump THEN <<-Player_SPEED, v[2]>> ELSE <<-(Player_SPEED \div 2), v[2]>>
              ELSE IF key.held = "D"
              THEN IF can_jump THEN <<Player_SPEED, v[2]>> ELSE <<Player_SPEED \div 2, v[2]>>
              ELSE IF can_jump THEN <<v[1] \div 2, v[2]>> ELSE <<v[1], v[2]>>
    IN IF can_jump /\ key.jump THEN <<v1[1], Player_JUMP_SPEED>> ELSE v1

(***************************************************************************)
(* Game.  The operators of Game.update work on a record g of the fields    *)
(* they change: bullets, enemies, lives, hits, particles, space, created,  *)
(* error, and what the pass did (updated, expired, struck, absent).        *)
(***************************************************************************)
handle_hit_player(s) == "GAME_OVER"

\* message with every name handled as "hit_player"
message_any(s, msg) == handle_hit_player(s)

\* Game.message: getattr finds a handler for "hit_player" only
message(s, msg) == IF msg = "hit_player" THEN handle_hit_player(s) ELSE s

del_bullet(g, b) ==
    IF b.id \in Ids(g.bullets)
    THEN [g EXCEPT !.bullets = RemoveAt(@, IndexOfId(g.bullets, b.id))]
    ELSE [g EXCEPT !.error = "ValueError"]

\* remove_death_particle leaving the emitter in the list
remove_death_particle_forgets(g, id) == g

remove_death_particle(g, id) ==
    IF id \in Ids(g.particles)
    THEN [g EXCEPT !.particles = RemoveAt(@, IndexOfId(g.particles, id))]
    ELSE [g EXCEPT !.error = "ValueError"]

\* del_enemy without the death animation
del_enemy_silent(g, e, xs) ==
    IF ~Contains(g.enemies, e) THEN [g EXCEPT !.error = "ValueError"]
    ELSE [g EXCEPT !.enemies = ListRemove(@, e), !.space = @ \ {EnemyBody(e)}]

\* xs are the draws of the particles' durations
del_enemy(g, e, xs) ==
    IF ~Contains(g.enemies, e) THEN [g EXCEPT !.error = "ValueError"]
    ELSE LET id == Len(g.created) + 1
             ds == generate_particles(
                       [d |-> DeathParticles(id), space |-> g.space \ {EnemyBody(e)}], xs)
         IN [g EXCEPT !.enemies = ListRemove(@, e),
                      !.absent = IF EnemyBody(e) \in g.space THEN @ ELSE @ \cup {EnemyBody(e)},
                      !.space = ds.space,
                      !.particles = Append(@, ds.d),
                      !.created = Append(@, e)]

\* is_dead with the comparison off by one
is_dead_strict(l) == l < 0

is_dead(l) == l <= 0

Within(b, e, epos, r) ==
    (b.position[1] - epos[1]) * (b.position[1] - epos[1])
      + (b.position[2] - epos[2]) * (b.position[2] - epos[2]) <= r * r

\* the loop of verify_bullet_hit_enemies over self.enemies, from index j
RECURSIVE enemy_loop(_, _, _, _, _, _)
enemy_loop(g, b, epos, rad, xs, j) ==
    IF g.error # "none" \/ j > Len(g.enemies) THEN g
    ELSE LET e == g.enemies[j]
         IN IF Within(b, e, epos[e], rad[e])
            THEN LET g1 == del_bullet(g, b)
                     g2 == [g1 EXCEPT !.lives[e] = @ - 1, !.hits[e] = @ + 1,
                                      !.struck = @ \cup {b.id}]
                     g3 == IF is_dead(g2.lives[e]) THEN del_enemy(g2, e, xs) ELSE g2
                 IN IF g1.error # "none" THEN g1
                    ELSE enemy_loop(g3, b, epos, rad, xs, j + 1)
            ELSE enemy_loop(g, b, epos, rad, xs, j + 1)

verify_bullet_hit_enemies(g, b, epos, rad, xs) == enemy_loop(g, b, epos, rad, xs, 1)

\* b.update() for the bullet at index i
Bullet_update(g, i) ==
    LET b == Bullet_move(g.bullets[i])
        g1 == [g EXCEPT !.bullets[i] = b, !.updated = Append(@, b.id)]
    IN IF Bullet_expired(b)
       THEN [del_bullet(g1, b) EXCEPT !.expired = @ \cup {b.id}]
       ELSE g1

\* the loop of Game.update over self.bullets, from index i
RECURSIVE bullet_loop(_, _, _, _, _)
bullet_loop(g, epos, rad, xs, i) ==
    IF g.error # "none" \/ i > Len(g.bullets) THEN g
    ELSE LET b == Bullet_move(g.bullets[i])
             g1 == Bullet_update(g, i)
             g2 == verify_bullet_hit_enemies(g1, b, epos, rad, xs)
         IN bullet_loop(g2, epos, rad, xs, i + 1)

\* the loop of Game.update over self.particles, from index i
RECURSIVE particle_loop(_, _)
particle_loop(g, i) ==
    IF g.error # "none" \/ i > Len(g.particles) THEN g
    ELSE LET ds == DeathParticles_update([d |-> g.particles[i], space |-> g.space])
             g1 == [g EXCEPT !.particles[i] = ds.d, !.space = ds.space]
             g2 == IF Len(ds.d.particles) = 0
                   THEN remove_death_particle(g1, ds.d.id)
                   ELSE g1
         IN particle_loop(g2, i + 1)

correct_mouse_distance(px, mouse) == <<px + mouse[1] - (WIDTH \div 2), mouse[2]>>

\* the smallest identifier no live bullet has
FreshBullet(bs) == CHOOSE n \in 1..(Len(bs) + 1) : n \notin Ids(bs) /\ \A m \in 1..(n - 1) : m \in Ids(bs)

\* shoot_bullet without the cap
shoot_bullet_uncapped(bs, ppos, mouse) ==
    LET m == correct_mouse_distance(ppos[1], mouse)
    IN Append(bs, Bullet(FreshBullet(bs), ppos[1], ppos[2], m[1], m[2]))

shoot_bullet(bs, ppos, mouse) ==
    IF Len(bs) > MAX_BULLETS THEN bs
    ELSE LET m == correct_mouse_distance(ppos[1], mouse)
         IN Append(bs, Bullet(FreshBullet(bs), ppos[1], ppos[2], m[1], m[2]))

\* can_shoot without the test of the state
can_shoot_always(s, pressed) == pressed

\* the condition of the call of shoot_bullet in Game.update
can_shoot(s, pressed) == s = "RUNNING" /\ pressed

\* win_check recomputing the state in every pass
win_check_reset(s, es) == IF Len(es) = 0 THEN "HAS_WON" ELSE "RUNNING"

\* win_check leaving GAME_OVER alone
win_check_guarded(s, es) == IF Len(es) = 0 /\ s = "RUNNING" THEN "HAS_WON" ELSE s

\* the last statement of Game.update
win_check(s, es) == IF Len(es) = 0 THEN "HAS_WON" ELSE s

(***************************************************************************)
(* Enemy.register: the begin callback of the (PLAYER, ENEMY) pair.         *)
(***************************************************************************)
collision_type(shape) == shape[1]

\* the callback's (player, enemy) for arb.shapes = (shape_a, shape_b)
begin_roles(shape_a, shape_b) ==
    IF collision_type(shape_a) = "player"
    THEN [player |-> shape_a, enemy |-> shape_b]
    ELSE [player |-> shape_b, enemy |-> shape_b]

\* begin_removes with the two branches exchanged
begin_removes_inverted(ny) == ny >= 25

\* n.y < 0.25
begin_removes(ny) == ny < 25

\* n.y <= -0.5
col_start_can_jump(ny) == ny <= -50

(***************************************************************************)
(* The state after Game.__init__.                                          *)
(***************************************************************************)
Init ==
    /\ state = "RUNNING"
    /\ player = [can_jump |-> FALSE, velocity |-> <<0, 0>>]
    /\ enemies = [i \in 1..INITIAL_ENEMIES |-> i]
    /\ lives = [e \in EnemyIds |-> Enemy_lives]
    /\ radius \in [EnemyIds -> Radii]
    /\ bullets = <<>>
    /\ particles = <<>>
    /\ space = {PlayerBody} \cup {EnemyBody(e) : e \in EnemyIds}
    /\ error = "none"
    /\ hits = [e \in EnemyIds |-> 0]
    /\ created = <<>>
    /\ lastOp = NoLog

(***************************************************************************)
(* The callbacks the engine runs inside space.step, the first statement of *)
(* Game.update: they come before the rest of that update.                  *)
(***************************************************************************)
\* begin(arb): enemy e and the player start touching
Begin(e, order, ny) ==
    /\ error = "none"
    /\ PlayerBody \in space
    /\ EnemyBody(e) \in space
    /\ LET shapes == IF order = "player_first" THEN <<PlayerBody, EnemyBody(e)>>
                     ELSE <<EnemyBody(e), PlayerBody>>
           r == begin_roles(shapes[1], shapes[2])
       IN IF begin_removes(ny)
          THEN /\ space' = space \ {r.enemy}
               /\ state' = state
               /\ lastOp' = Callback
          ELSE /\ space' = space
               /\ state' = message(state, "hit_player")
               /\ lastOp' = [Callback EXCEPT !.msgs = <<"hit_player">>]
    /\ UNCHANGED <<player, enemies, lives, radius, bullets, particles, error, hits, created>>

\* _col_start(arb): post-solve of a contact of the player
ColStart(ny) ==
    /\ error = "none"
    /\ PlayerBody \in space
    /\ player' = [player EXCEPT !.can_jump = col_start_can_jump(ny)]
    /\ lastOp' = Callback
    /\ UNCHANGED <<state, enemies, lives, radius, bullets, particles, space, error, hits,
                   created>>

\* _col_end(arb): a contact of the player ends
ColEnd ==
    /\ error = "none"
    /\ player' = [player EXCEPT !.can_jump = FALSE]
    /\ lastOp' = Callback
    /\ UNCHANGED <<state, enemies, lives, radius, bullets, particles, space, error, hits,
                   created>>

(***************************************************************************)
(* Game.update after space.step.  camera.follow moves the camera only.     *)
(***************************************************************************)
Clicks == {[pressed |-> FALSE, mouse |-> <<0, 0>>]}
            \cup {[pressed |-> TRUE, mouse |-> m] : m \in MousePositions}

NoDraws == [k \in 1..DefaultBatch |-> 0]

Pass0 == [bullets |-> bullets, enemies |-> enemies, lives |-> lives, hits |-> hits,
          particles |-> particles, space |-> space, created |-> created,
          error |-> "none", updated |-> <<>>, expired |-> {}, struck |-> {},
          absent |-> {}]

UpdateWith(epos, ppos, v, key, click, xs) ==
    \E g2 \in {particle_loop(bullet_loop(Pass0, epos, radius, xs, 1), 1)} :
       LET ok == g2.error = "none" IN
       /\ player' = [player EXCEPT !.velocity =
                        IF state # "GAME_OVER" THEN Player_update(player.can_jump, v, key)
                        ELSE v]
       /\ enemies' = g2.enemies
       /\ lives' = g2.lives
       /\ hits' = g2.hits
       /\ particles' = g2.particles
       /\ space' = g2.space
       /\ created' = g2.created
       /\ error' = g2.error
       /\ bullets' = IF ok /\ can_shoot(state, click.pressed)
                     THEN shoot_bullet(g2.bullets, ppos, click.mouse)
                     ELSE g2.bullets
       /\ state' = IF ok THEN win_check(state, g2.enemies) ELSE state
       /\ lastOp' = [NoLog EXCEPT !.op = "update", !.updated = g2.updated,
                                  !.expired = g2.expired, !.struck = g2.struck,
                                  !.absent = g2.absent]
       /\ UNCHANGED radius

\* the positions the pass reads are those of the enemies in self.enemies
\* and it reads them once for each bullet
StepPositions ==
    {[e \in EnemyIds |-> IF Contains(enemies, e) /\ bullets # <<>> THEN f[e] ELSE <<40, 0>>] :
        f \in [EnemyIds -> EnemyPositions]}

\* the draws are read only when an enemy dies, which takes a bullet and an enemy
\* on its last life
StepDraws ==
    IF bullets # <<>> /\ \E i \in 1..Len(enemies) : lives[enemies[i]] <= 1
    THEN DrawSeqs(DefaultBatch) ELSE {NoDraws}

Update ==
    /\ error = "none"
    /\ \E epos \in StepPositions, ppos \in PlayerPositions,
          v \in StepVelocities, key \in Keys, click \in Clicks, xs \in StepDraws :
             UpdateWith(epos, ppos, v, key, click, xs)

Next ==
    \/ \E e \in EnemyIds, order \in ShapeOrders, ny \in NormalYs : Begin(e, order, ny)
    \/ \E ny \in GroundNormalYs : ColStart(ny)
    \/ ColEnd
    \/ Update

Spec == Init /\ [][Next]_vars

(***************************************************************************)
(* pyxel.run calls Game.update in every frame for as long as no exception  *)
(* has left it: weak fairness of Update.  SpecLive spells WF_vars(Update)  *)
(* out, []<>~ENABLED <<Update>>_vars \/ []<><<Update>>_vars, with Update's   *)
(* guard for ENABLED <<Update>>_vars.  The two differ only in the states   *)
(* where a pass changes nothing, and a pass that returns changes           *)
(* Game.particles whenever it holds an emitter.                            *)
(***************************************************************************)
UpdateEnabled == error = "none"

\* the frames and the enemy contacts; the player's ground contacts change
\* can_jump alone, which the pass over the bullets and the emitters never reads
NextLive ==
    \/ \E e \in EnemyIds, order \in ShapeOrders, ny \in NormalYs : Begin(e, order, ny)
    \/ Update

SpecLive == Init /\ [][NextLive]_vars /\ ([]<>~UpdateEnabled \/ []<><<Update>>_vars)

(***************************************************************************)
(* DeathParticles on its own: emitters built with DeathParticles(space,    *)
(* remove_me = game.remove_death_particle) and appended to Game.particles, *)
(* then driven by any calls of generate_particles, emmit and update, with  *)
(* any batch_size up to one more than the cap.  i is the emitter's place   *)
(* in Game.particles.                                                      *)
(***************************************************************************)
EmitterIds == {1, 2}

\* the draws of one batch: its size, and one duration for the whole batch
BatchDraws == {[k \in 1..n |-> x] : n \in 0..(MAX_GENERATED + 1), x \in ExpoDraws}

InitEmitters ==
    /\ state = "RUNNING"
    /\ player = [can_jump |-> FALSE, velocity |-> <<0, 0>>]
    /\ enemies = [i \in 1..INITIAL_ENEMIES |-> i]
    /\ lives = [e \in EnemyIds |-> Enemy_lives]
    /\ radius \in [EnemyIds -> Radii]
    /\ bullets = <<>>
    /\ particles = [i \in EmitterIds |-> DeathParticles(i)]
    /\ space = {PlayerBody} \cup {EnemyBody(e) : e \in EnemyIds}
    /\ error = "none"
    /\ hits = [e \in EnemyIds |-> 0]
    /\ created = <<>>
    /\ lastOp = NoLog

\* death.generate_particles(position, batch_size = Len(xs)) on the i-th emitter
Generate(i, xs) ==
    /\ error = "none"
    /\ i \in 1..Len(particles)
    /\ \E ds \in {generate_particles([d |-> particles[i], space |-> space], xs)} :
          /\ particles' = [particles EXCEPT ![i] = ds.d]
          /\ space' = ds.space
    /\ lastOp' = [NoLog EXCEPT !.op = "generate_particles"]
    /\ UNCHANGED <<state, player, enemies, lives, radius, bullets, error, hits, created>>

\* death.emmit(position, velocity) on the i-th emitter
Emmit(i, x) ==
    /\ error = "none"
    /\ i \in 1..Len(particles)
    /\ \E ds \in {emmit([d |-> particles[i], space |-> space], x)} :
          /\ particles' = [particles EXCEPT ![i] = ds.d]
          /\ space' = ds.space
    /\ lastOp' = [NoLog EXCEPT !.op = "emmit"]
    /\ UNCHANGED <<state, player, enemies, lives, radius, bullets, error, hits, created>>

\* death.update() on the i-th emitter
EmitterUpdate(i) ==
    /\ error = "none"
    /\ i \in 1..Len(particles)
    /\ \E ds \in {DeathParticles_update([d |-> particles[i], space |-> space])} :
          /\ particles' = IF Len(ds.d.particles) = 0 THEN RemoveAt(particles, i)
                          ELSE [particles EXCEPT ![i] = ds.d]
          /\ space' = ds.space
    /\ lastOp' = [NoLog EXCEPT !.op = "DeathParticles.update"]
    /\ UNCHANGED <<state, player, enemies, lives, radius, bullets, error, hits, created>>

NextEmitters ==
    \/ \E i \in EmitterIds, xs \in BatchDraws : Generate(i, xs)
    \/ \E i \in EmitterIds, x \in ExpoDraws : Emmit(i, x)
    \/ \E i \in EmitterIds : EmitterUpdate(i)

SpecEmitters == InitEmitters /\ [][NextEmitters]_vars

(***************************************************************************)
(* Player.update and Game.message on their own: called with any velocity   *)
(* the engine can have left, any keys and any message name, between the    *)
(* contact callbacks.  With A and D both held the code takes A.            *)
(***************************************************************************)
\* self.velocity as Player.update reads it
CallVelocities == {<<-40, -30>>, <<0, 0>>, <<40, 50>>}

CallKeys == {[held |-> h, jump |-> j] : h \in {"none", "A", "D"}, j \in BOOLEAN}

\* the msg of Game.message(msg, sender)
Messages == {"hit_player", "hit_enemy", ""}

CallLog(op, args) == [op |-> op, args |-> args, msgs |-> <<>>, updated |-> <<>>,
                      expired |-> {}, struck |-> {}, absent |-> {}]

\* a game that is running, before or after its first shot
InitCalls ==
    /\ state = "RUNNING"
    /\ player = [can_jump |-> FALSE, velocity |-> <<0, 0>>]
    /\ enemies = [i \in 1..INITIAL_ENEMIES |-> i]
    /\ lives = [e \in EnemyIds |-> Enemy_lives]
    /\ radius \in [EnemyIds -> Radii]
    /\ bullets \in {<<>>, shoot_bullet(<<>>, <<0, 0>>, <<129, 0>>)}
    /\ particles = <<>>
    /\ space = {PlayerBody} \cup {EnemyBody(e) : e \in EnemyIds}
    /\ error = "none"
    /\ hits = [e \in EnemyIds |-> 0]
    /\ created = <<>>
    /\ lastOp = NoLog

\* player.update() with v the velocity it reads
PlayerUpdate(v, key) ==
    /\ error = "none"
    /\ player' = [player EXCEPT !.velocity = Player_update(player.can_jump, v, key)]
    /\ lastOp' = CallLog("Player.update", [v |-> v, key |-> key])
    /\ UNCHANGED <<state, enemies, lives, radius, bullets, particles, space, error, hits,
                   created>>

\* game.message(msg, sender)
Message(msg) ==
    /\ error = "none"
    /\ state' = message(state, msg)
    /\ lastOp' = CallLog("message", [msg |-> msg])
    /\ UNCHANGED <<player, enemies, lives, radius, bullets, particles, space, error, hits,
                   created>>

NextCalls ==
    \/ \E v \in CallVelocities, key \in CallKeys : PlayerUpdate(v, key)
    \/ \E msg \in Messages : Message(msg)
    \/ \E ny \in GroundNormalYs : ColStart(ny)
    \/ ColEnd

SpecCalls == InitCalls /\ [][NextCalls]_vars

(***************************************************************************)
(* More than one Game in a process.  enemies, bullets and particles are    *)
(* attributes of the class Game: Game.__init__ and the methods reach them  *)
(* as self.enemies, self.bullets and self.particles and only ever call     *)
(* append and remove on them, so every Game works on the same three lists. *)
(* state, player and space are assigned in __init__ and belong to the      *)
(* instance; the variables of that name are those of the Game built last,  *)
(* the one that runs.  The enemies of all Games are numbered on.           *)
(***************************************************************************)
\* the Games a process builds
MaxGames == 2

AllEnemies == DOMAIN lives

GamesBuilt == Cardinality(AllEnemies) \div INITIAL_ENEMIES

\* Game(): another Game is built and run
NewGame ==
    /\ error = "none"
    /\ GamesBuilt < MaxGames
    /\ LET n == Cardinality(AllEnemies)
           new == (n + 1)..(n + INITIAL_ENEMIES)
       IN /\ enemies' = enemies \o [i \in 1..INITIAL_ENEMIES |-> n + i]
          /\ lives' = [e \in AllEnemies \cup new |-> IF e \in new THEN Enemy_lives ELSE lives[e]]
          /\ \E rs \in [new -> Radii] :
                radius' = [e \in AllEnemies \cup new |-> IF e \in new THEN rs[e] ELSE radius[e]]
          /\ hits' = [e \in AllEnemies \cup new |-> IF e \in new THEN 0 ELSE hits[e]]
          /\ space' = {PlayerBody} \cup {EnemyBody(e) : e \in new}
    /\ state' = "RUNNING"
    /\ player' = [can_jump |-> FALSE, velocity |-> <<0, 0>>]
    /\ lastOp' = [NoLog EXCEPT !.op = "Game"]
    /\ UNCHANGED <<bullets, particles, error, created>>

\* Game.update of the Game that runs, with every enemy of the list at one place
UpdateShared ==
    /\ error = "none"
    /\ \E p \in EnemyPositions, ppos \in PlayerPositions, v \in StepVelocities,
          key \in Keys, click \in Clicks, xs \in StepDraws :
             UpdateWith([e \in AllEnemies |-> p], ppos, v, key, click, xs)

NextGames ==
    \/ NewGame
    \/ UpdateShared
    \/ \E e \in AllEnemies, order \in ShapeOrders, ny \in NormalYs : Begin(e, order, ny)

SpecGames == Init /\ [][NextGames]_vars

(***************************************************************************)
(* Properties.                                                             *)
(***************************************************************************)
Terminal(s) == s \in {"GAME_OVER", "HAS_WON"}

Listed(e) == Contains(enemies, e)

\* C1: once Game.state is GAME_OVER or HAS_WON, no update and no callback makes
\* it RUNNING again.
C1_NeverRunningAgain == [][Terminal(state) => state' # "RUNNING"]_vars

\* a pass of Game.update has run in a terminal state
C1_Witness == lastOp.op = "update" /\ state = "GAME_OVER"

\* C2: no transition leaves GAME_OVER and none leaves HAS_WON.
C2_TerminalStay == [][Terminal(state) => state' = state]_vars

\* C3: at the end of every pass of Game.update, Game.state is HAS_WON exactly
\* when Game.enemies is empty.
C3_WinIffNoEnemies ==
    (lastOp.op = "update" /\ error = "none") => (state = "HAS_WON" <=> Len(enemies) = 0)

\* a pass has ended with the last enemy gone
C3_Witness == lastOp.op = "update" /\ error = "none" /\ state = "HAS_WON" /\ Len(enemies) = 0

\* C4: every enemy's lives stay within 0..4; an enemy in Game.enemies has at
\* least one life, and an enemy that left the list has none.
C4_LivesAndRemoval ==
    \A e \in EnemyIds :
        /\ lives[e] \in 0..Enemy_lives
        /\ Listed(e) => lives[e] >= 1
        /\ ~Listed(e) => lives[e] <= 0

\* one enemy was shot down to 0 lives and removed while another is still listed
C4_Witness ==
    \E e, f \in EnemyIds : /\ lives[e] = 0 /\ ~Listed(e) /\ hits[e] = Enemy_lives
                           /\ Listed(f) /\ lives[f] \in 1..(Enemy_lives - 1)

\* C5: Game.bullets never holds more than MAX_BULLETS bullets.
C5_AtMostMaxBullets == Len(bullets) <= MAX_BULLETS

BulletOf(bs, id) == bs[IndexOfId(bs, id)]

\* the bullet shoot_bullet appends: never updated, at the player's position
NewBullet(b) == b.life_time = Bullet_life_time /\ b.position \in PlayerPositions

\* the hits of enemies 1..n
RECURSIVE TotalHits(_, _)
TotalHits(h, n) == IF n = 0 THEN 0 ELSE h[n] + TotalHits(h, n - 1)

\* C6: each update of a bullet takes exactly one from its life_time; the bullet
\* leaves Game.bullets in the update that takes life_time below 0 or, earlier,
\* in the update that finds it within an enemy's radius; a bullet that did
\* neither is still in the list, and no bullet of the list has a negative
\* life_time.  Every bullet that struck took one life from one enemy.
C6_BulletLife ==
    [][lastOp'.op = "update" =>
        /\ \A i \in 1..Len(bullets') : bullets'[i].life_time \in 0..Bullet_life_time
        /\ lastOp'.expired \cup lastOp'.struck \subseteq Ids(bullets)
        /\ lastOp'.expired \cap lastOp'.struck = {}
        /\ TotalHits(hits', INITIAL_ENEMIES) - TotalHits(hits, INITIAL_ENEMIES)
              = Cardinality(lastOp'.struck)
        /\ \A id \in Ids(bullets) :
            LET b == BulletOf(bullets, id)
                updated == id \in Range(lastOp'.updated)
                gone == id \in lastOp'.expired \cup lastOp'.struck
            IN /\ (updated /\ ~gone) =>
                    /\ id \in Ids(bullets')
                    /\ BulletOf(bullets', id).life_time = b.life_time - 1
               /\ ~updated => (~gone /\ id \in Ids(bullets') /\ BulletOf(bullets', id) = b)
               /\ id \in lastOp'.expired <=> (updated /\ b.life_time - 1 < 0)
               /\ id \in lastOp'.struck => updated
               /\ gone => \/ id \notin Ids(bullets')
                          \/ /\ bullets'[Len(bullets')].id = id
                             /\ NewBullet(bullets'[Len(bullets')])
                             /\ Len(bullets') <= Len(bullets)]_vars

\* a pass in which one bullet expired and another stayed in the list
C6_Witness == lastOp.op = "update" /\ lastOp.expired # {} /\ bullets # <<>>

CountIn(s, x) == Cardinality({i \in 1..Len(s) : s[i] = x})

\* C7: an enemy whose lives reached 0 (4 bullet hits from full health) is out of
\* Game.enemies and out of the physics world, and exactly one emitter was
\* created and appended for it; no emitter was created for any other enemy.
C7_OneEmitterPerDeath ==
    /\ \A e \in EnemyIds :
        /\ hits[e] = Enemy_lives - lives[e]
        /\ lives[e] <= 0 =>
              (~Listed(e) /\ EnemyBody(e) \notin space /\ CountIn(created, e) = 1)
        /\ lives[e] >= 1 => CountIn(created, e) = 0
    /\ Len(created) = Cardinality({e \in EnemyIds : lives[e] <= 0})

\* an enemy took 4 hits, and its emitter is in Game.particles
C7_Witness ==
    \E e \in EnemyIds : /\ hits[e] = Enemy_lives /\ lives[e] = 0
                        /\ \E i \in 1..Len(particles) : created[particles[i].id] = e

C10_PlayerStays == PlayerBody \in space

\* the bodies of the emitter's particles that are in the world
BodiesOf(d, sp) == {b \in sp : b[1] = "particle" /\ b[2] = d.id}

EmitterWithinCap(d, sp) ==
    /\ d.generated <= MAX_GENERATED
    /\ Len(d.particles) <= d.generated
    /\ \A k \in 1..Len(d.particles) : d.particles[k].pid \in 1..d.generated
    /\ BodiesOf(d, sp) = {ParticleBody(d.id, d.particles[k].pid) : k \in 1..Len(d.particles)}
    /\ Cardinality(BodiesOf(d, sp)) = Len(d.particles)

\* C8: an emitter never counts or holds more than MAX_GENERATED particles:
\* generated <= MAX_GENERATED and len(particles) <= generated after every call,
\* for any batch_size, and a call of generate_particles or emmit made at the cap
\* changes neither the emitter nor the world.
C8_GenerationCap ==
    [][/\ \A i \in 1..Len(particles') : EmitterWithinCap(particles'[i], space')
       /\ \A i \in 1..Len(particles) :
            ~keep_generating(particles[i]) =>
               /\ \A xs \in BatchDraws :
                     Generate(i, xs) => (particles' = particles /\ space' = space)
               /\ \A x \in ExpoDraws :
                     Emmit(i, x) => (particles' = particles /\ space' = space)]_vars

\* an emitter at the cap that lost a particle and was then asked for more
C8_Witness ==
    /\ lastOp.op = "emmit"
    /\ \E i \in 1..Len(particles) :
          /\ particles[i].generated = MAX_GENERATED
          /\ Len(particles[i].particles) < MAX_GENERATED

\* C11: an enemy is in Game.enemies exactly when it is in the physics world, and
\* space.remove is never given an enemy that is already out of the world.
C11_EnemiesInSync ==
    /\ \A e \in EnemyIds : Listed(e) <=> EnemyBody(e) \in space
    /\ lastOp.absent = {}

\* C12: Player.update changes the vertical velocity only when can_jump holds and
\* W was pressed in this frame, and then to JUMP_SPEED; with can_jump false a
\* pressed W leaves the vertical velocity as it was, whatever the horizontal keys.
C12_JumpOnlyGrounded ==
    [][\A v \in CallVelocities, key \in CallKeys :
         PlayerUpdate(v, key) =>
            IF player.can_jump /\ key.jump
            THEN player'.velocity[2] = Player_JUMP_SPEED
            ELSE player'.velocity[2] = v[2]]_vars

\* W pressed in the air with A held: half speed to the left, no jump
C12_Witness ==
    /\ lastOp.op = "Player.update"
    /\ lastOp.args.key = [held |-> "A", jump |-> TRUE]
    /\ ~player.can_jump
    /\ player.velocity = <<-(Player_SPEED \div 2), lastOp.args.v[2]>>
    /\ lastOp.args.v[2] # 0

\* C13: Game.message with a name that has no handler raises nothing and leaves the
\* state and the enemy, bullet and particle lists alone; "hit_player" alone
\* changes the state, to GAME_OVER.
C13_UnknownMessageIgnored ==
    [][\A msg \in Messages :
         Message(msg) =>
            /\ error' = "none"
            /\ enemies' = enemies /\ bullets' = bullets /\ particles' = particles
            /\ state' = IF msg = "hit_player" THEN "GAME_OVER" ELSE state]_vars

\* an unknown message reached a running game that has a bullet in flight
C13_Witness ==
    /\ lastOp.op = "message" /\ lastOp.args.msg = "hit_enemy"
    /\ state = "RUNNING" /\ bullets # <<>>

\* C14: every pass of Game.update that returns has updated each bullet that was in
\* Game.bullets when the pass began exactly once, in the order of the list.
C14_EveryBulletUpdated ==
    [][(lastOp'.op = "update" /\ error' = "none") =>
          lastOp'.updated = [i \in 1..Len(bullets) |-> bullets[i].id]]_vars

\* C15: Game.del_bullet is never called with a bullet that is no longer in
\* Game.bullets, so list.remove never raises.
C15_NoDoubleRemoval == error = "none"

\* the emitter's particles all end in its next update
LastUpdate(d) == \A k \in 1..Len(d.particles) : d.particles[k].duration <= 1

\* C16: while Game.update keeps being called, every emitter in Game.particles
\* leaves it; it leaves in a pass of update that ends its last particle, it holds
\* a particle for as long as it is in the list, and it never comes back.
C16_EmitterRemoved ==
    /\ \A id \in 1..INITIAL_ENEMIES :
          (id \in Ids(particles)) ~> (id \notin Ids(particles) \/ error # "none")
    /\ [](\A i \in 1..Len(particles) :
             /\ Len(particles[i].particles) \in 1..MAX_GENERATED
             /\ \A k \in 1..Len(particles[i].particles) :
                   particles[i].particles[k].duration \in 0..MAX_DURATION)
    /\ [][/\ \A id \in Ids(particles) \ Ids(particles') :
                lastOp'.op = "update" /\ LastUpdate(BulletOf(particles, id))
          /\ (lastOp'.op = "update" /\ error' = "none" /\ particles # <<>>) =>
                particles' # particles
          /\ \A id \in Ids(particles') \ Ids(particles) :
                id \in (Len(created) + 1)..Len(created')
          /\ Len(created') >= Len(created)]_vars

\* an emitter was created and has left the list, and the game goes on
C16_Witness ==
    /\ lastOp.op = "update" /\ error = "none"
    /\ Len(created) >= 1 /\ 1 \notin Ids(particles)
    /\ Len(enemies) >= 1

\* C17: a pass of Game.update that reaches the click check in GAME_OVER or HAS_WON
\* appends no bullet: the list loses the bullets that expired or struck in the
\* pass and gains none, so it does not grow.
C17_ShootOnlyRunning ==
    [][(lastOp'.op = "update" /\ Terminal(state)) =>
          /\ Len(bullets') = Len(bullets) - Cardinality(lastOp'.expired \cup lastOp'.struck)
          /\ Ids(bullets') \subseteq Ids(bullets)
          /\ \A i \in 1..Len(bullets') : bullets'[i].life_time < Bullet_life_time
                                           \/ bullets'[i] \in Range(bullets)]_vars

\* a pass ran after the game was lost, with a bullet still in flight after it
C17_Witness ==
    /\ lastOp.op = "update" /\ state = "GAME_OVER" /\ error = "none"
    /\ lastOp.updated # <<>> /\ bullets # <<>>

\* C18: Game.bullets never holds more than MAX_BULLETS + 1 bullets.
C18_AtMostOneBeyondMax == Len(bullets) <= MAX_BULLETS + 1

\* the one bullet beyond the maximum is in the list, and a click came after it
C18_Witness ==
    /\ Len(bullets) = MAX_BULLETS + 1 /\ lastOp.op = "update" /\ state = "RUNNING"
    /\ \A i \in 1..Len(bullets) : ~NewBullet(bullets[i])

\* C19: a newly built Game has exactly INITIAL_ENEMIES enemies and no bullet and
\* no emitter in its lists.
C19_PerInstanceLists ==
    [][lastOp'.op = "Game" =>
          /\ Len(enemies') = INITIAL_ENEMIES
          /\ bullets' = <<>>
          /\ particles' = <<>>]_vars

ParticleBodies(sp) == {b \in sp : b[1] = "particle"}

\* the bodies of the particles in the lists of the emitters of Game.particles
HeldBodies ==
    UNION {{ParticleBody(particles[i].id, particles[i].particles[k].pid) :
               k \in 1..Len(particles[i].particles)} : i \in 1..Len(particles)}

\* C20: the particle bodies in the physics world are exactly the particles in the
\* lists of the emitters that are in Game.particles; an emitter that has left
\* Game.particles has no particle in the world.
C20_NoParticleLeak ==
    /\ ParticleBodies(space) = HeldBodies
    /\ \A b \in ParticleBodies(space) : b[2] \in Ids(particles)

\* one emitter has left Game.particles and another still has particles in the world
C20_Witness ==
    /\ Len(created) > Len(particles) /\ particles # <<>>
    /\ ParticleBodies(space) # {}

====
